---- MODULE Spec2Model ----
(***************************************************************************)
(* Facebird API: the error classifier (lib/custom_errors) and the post     *)
(* routes (app/routes/post_routes.js) that use it.                         *)
(*                                                                         *)
(* Two specifications share the module:                                    *)
(*   GuardSpec  the guard functions applied to bounded inputs, several     *)
(*              classifications interleaved;                               *)
(*   Spec       the post routes as promise chains over a document store,   *)
(*              several requests in flight.                                *)
(***************************************************************************)
EXTENDS Integers, Sequences, FiniteSets, TLC

VARIABLES loaded, calls, store, nextPost, clock, creator, slots, res, body, handled, raised

vars == <<loaded, calls, store, nextPost, clock, creator, slots, res, body, handled, raised>>
guardVars == <<loaded, calls>>
routeVars == <<store, nextPost, clock, creator, slots, res, body, handled, raised>>

----------------------------------------------------------------------------
(* Bounds *)

NumUsers == 2
NumCalls == 2
MaxPosts == 2
MaxClock == 1
MaxInFlight == 2

UserIds == 1..NumUsers
CallIds == 1..NumCalls
PostIds == 1..MaxPosts
SlotIds == 1..MaxInFlight

----------------------------------------------------------------------------
(* JavaScript values.  Every value is a record with a kind; an object      *)
(* carries ref, the identity of the in-memory instance.                    *)

Null == [kind |-> "null"]
Undefined == [kind |-> "undefined"]
Str(s) == [kind |-> "string", value |-> s]
ObjectId(o, k) == [kind |-> "ObjectId", oid |-> o, ref |-> k]

\* obj[key] in JavaScript: a missing property reads as undefined
Get(obj, key) == IF key \in DOMAIN obj THEN obj[key] ELSE Undefined

\* !v is true for null, undefined and the empty string
Falsy(v) ==
  \/ v.kind \in {"null", "undefined"}
  \/ (v.kind = "string" /\ v.value = "")

\* the hexadecimal strings of the identifiers 1, 2, ...
Hex == <<"5a7db6c74d55bc51bdf39791", "5a7db6c74d55bc51bdf39792",
         "5a7db6c74d55bc51bdf39793", "5a7db6c74d55bc51bdf39794",
         "5a7db6c74d55bc51bdf39795", "5a7db6c74d55bc51bdf39796">>

\* user.id: the hexadecimal string of user._id
ToHexString(objId) == Str(Hex[objId.oid])

\* the schema's cast of a value to the stored identifier
CastObjectId(v) ==
  IF v.kind = "string"
  THEN CHOOSE o \in 1..Len(Hex) : Hex[o] = v.value
  ELSE v.oid

\* _id.equals(other): identifiers compare by value, whatever the instance
IdEqualsByReference(a, b) == a = b
IdEquals(a, b) ==
  CASE b.kind = "ObjectId" -> a.oid = b.oid
    [] b.kind = "string" -> ToHexString(a) = b
    [] OTHER -> FALSE

----------------------------------------------------------------------------
(* lib/custom_errors *)

OwnershipError ==
  [name |-> "OwnershipError",
   message |-> "The provided token does not match the owner of this document"]

UserValidationError ==
  [name |-> "UserValidationError",
   message |-> "The provided token does not match the current user ID"]

DocumentNotFoundErrorWithId ==
  [name |-> "DocumentNotFoundError",
   message |-> "The provided ID doesn't match any documents: null"]
DocumentNotFoundError ==
  [name |-> "DocumentNotFoundError",
   message |-> "The provided ID doesn't match any documents"]

BadParamsError ==
  [name |-> "BadParamsError",
   message |-> "A required parameter was omitted or invalid"]

\* the outcome of a call: a thrown error or a returned value
Throw(e) == [threw |-> TRUE, error |-> e]
Return(v) == [threw |-> FALSE, value |-> v]

requireOwnership(requestObject, resource) ==
  IF ~IdEquals(requestObject.user.id_, Get(resource, "owner"))
  THEN Throw(OwnershipError)
  ELSE Return(Undefined)

handle404Copy(record) ==
  IF Falsy(record)
  THEN Throw(DocumentNotFoundError)
  ELSE Return([record EXCEPT !.ref = 0])
handle404(record) ==
  IF Falsy(record)
  THEN Throw(DocumentNotFoundError)
  ELSE Return(record)

validateUserByOwner(requestObject, resource) ==
  IF ~IdEquals(requestObject.user.id_, Get(resource, "owner"))
  THEN Throw(UserValidationError)
  ELSE Return(Undefined)
validateUser(requestObject, resource) ==
  IF ~IdEquals(requestObject.user.id_, Get(resource, "id_"))
  THEN Throw(UserValidationError)
  ELSE Return(Undefined)

----------------------------------------------------------------------------
(* GuardSpec: the exported functions applied to bounded inputs.            *)
(* loaded is the resource in memory, calls the invocations of the guards.  *)

\* req.user as requireToken sets it, one instance per invocation
RequestObject(u, k) ==
  [user |-> [kind |-> "doc", ref |-> k, id_ |-> ObjectId(u, k),
             id |-> ToHexString(ObjectId(u, k))]]

\* owner as a resource may carry it: an instance, a hex string, null
OwnerValues ==
  {ObjectId(u, 2) : u \in UserIds}
    \cup {ToHexString(ObjectId(u, 0)) : u \in UserIds}
    \cup {Null}

Resources ==
  {[kind |-> "doc", ref |-> 1, id_ |-> ObjectId(i, 3), owner |-> o] :
      i \in UserIds, o \in OwnerValues}
    \cup {[kind |-> "doc", ref |-> 1, id_ |-> ObjectId(i, 3)] : i \in UserIds}

Guards == {"requireOwnership", "validateUser", "handle404", "BadParamsError"}

IdleCall == [pc |-> "idle"]

\* the value an argument denotes: the loaded resource or a primitive
Deref(h, arg) == IF arg.kind = "ptr" THEN h ELSE arg
Ptr == [kind |-> "ptr"]

RunGuard(h, c) ==
  CASE c.guard = "requireOwnership" ->
         requireOwnership(RequestObject(c.identity, 100 + c.id), Deref(h, c.arg))
    [] c.guard = "validateUser" ->
         validateUser(RequestObject(c.identity, 100 + c.id), Deref(h, c.arg))
    [] c.guard = "handle404" -> handle404(Deref(h, c.arg))
    [] OTHER -> Return(BadParamsError)

RouteIdle ==
  /\ store = [p \in PostIds |-> [kind |-> "none"]]
  /\ nextPost = 0
  /\ clock = 0
  /\ creator = [p \in PostIds |-> 0]
  /\ slots = [r \in SlotIds |-> [pc |-> "idle"]]
  /\ res = [r \in SlotIds |-> <<>>]
  /\ body = [r \in SlotIds |-> <<>>]
  /\ handled = [r \in SlotIds |-> <<>>]
  /\ raised = [r \in SlotIds |-> <<>>]

GuardInit ==
  /\ loaded \in Resources
  /\ calls = [c \in CallIds |-> IdleCall]
  /\ RouteIdle

\* a caller invokes a guard with its own identity and a resource
Invoke(c) ==
  /\ calls[c].pc = "idle"
  /\ \E g \in Guards, u \in UserIds,
        arg \in {Ptr, Null, Undefined} :
       /\ g \in {"requireOwnership", "validateUser"} => arg.kind = "ptr"
       /\ g = "BadParamsError" => (arg = Undefined /\ u = 1)
       /\ g = "handle404" => u = 1
       /\ calls' = [calls EXCEPT ![c] =
            [pc |-> "called", id |-> c, guard |-> g, identity |-> u, arg |-> arg]]
  /\ UNCHANGED <<loaded, routeVars>>

\* the guard runs to completion
ClassifyClaimingOwnership(c) ==
  /\ calls[c].pc = "called"
  /\ calls' = [calls EXCEPT ![c] =
       [calls[c] EXCEPT !.pc = "returned"] @@ [outcome |-> RunGuard(loaded, calls[c])]]
  /\ loaded' =
       IF calls[c].guard = "requireOwnership"
       THEN [kind |-> "doc", ref |-> 1, id_ |-> loaded.id_,
             owner |-> ObjectId(calls[c].identity, 2)]
       ELSE loaded
  /\ UNCHANGED routeVars
Classify(c) ==
  /\ calls[c].pc = "called"
  /\ calls' = [calls EXCEPT ![c] =
       [calls[c] EXCEPT !.pc = "returned"] @@ [outcome |-> RunGuard(loaded, calls[c])]]
  /\ UNCHANGED <<loaded, routeVars>>

\* the caller consumes the outcome
Release(c) ==
  /\ calls[c].pc = "returned"
  /\ calls' = [calls EXCEPT ![c] = IdleCall]
  /\ UNCHANGED <<loaded, routeVars>>

GuardNext == \E c \in CallIds : Invoke(c) \/ Classify(c) \/ Release(c)

GuardSpec == GuardInit /\ [][GuardNext]_vars

----------------------------------------------------------------------------
(* app/routes/post_routes.js: the store and the values the routes handle.  *)

NoDoc == [kind |-> "none"]
Present(p) == store[p].kind = "post"

\* a failure of a data-access operation (find, create, update, remove)
DbFailure == [name |-> "MongoError", message |-> "database operation failed"]
\* reading or writing a property of undefined
TypeError == [name |-> "TypeError", message |-> "Cannot read property 'owner' of undefined"]

Nicknames == <<"ann", "bob", "cyd", "dee", "eve", "fay">>

\* req.body.post: undefined, or an object with some of the keys text, owner
Object(f) == [kind |-> "object", fields |-> f]
EmptyFields == [k \in {} |-> Null]
TextValues == {"", "a"}
TextChoices == {EmptyFields} \cup {[text |-> Str(t)] : t \in TextValues}
OwnerChoices ==
  {EmptyFields} \cup {[owner |-> Str("")]}
    \cup {[owner |-> ToHexString(ObjectId(u, 0))] : u \in UserIds}
PostInputs == {Undefined} \cup {Object(t @@ o) : t \in TextChoices, o \in OwnerChoices}

DeleteKey(f, key) == [k \in DOMAIN f \ {key} |-> f[k]]
SetKey(f, key, v) == [k \in DOMAIN f \cup {key} |-> IF k = key THEN v ELSE f[k]]

\* POST /posts: the new post's owner is the current user
CreateFields(f, requestObject) == SetKey(f, "owner", requestObject.user.id)

\* PATCH /posts/:id: owner is deleted from the body, then every empty field
PatchFieldsKeepingOwner(f) ==
  [k \in {x \in DOMAIN f : f[x] # Str("")} |-> f[k]]
PatchFields(f) ==
  LET g == DeleteKey(f, "owner")
  IN [k \in {x \in DOMAIN g : g[x] # Str("")} |-> g[k]]

\* Post.create: the stored document of the given fields
NewDocument(f, now) ==
  [kind |-> "post", owner |-> CastObjectId(f.owner), text |-> Get(f, "text"),
   createdAt |-> now]

\* findByIdAndUpdate: the document with the given fields set
UpdatedDocument(doc, f) ==
  [doc EXCEPT !.text = IF "text" \in DOMAIN f THEN f.text ELSE @,
              !.owner = IF "owner" \in DOMAIN f THEN CastObjectId(f.owner) ELSE @]

\* the in-memory document of a stored one, instance k
Hydrate(p, doc, k) ==
  [kind |-> "doc", ref |-> k, id_ |-> ObjectId(p, k), owner |-> ObjectId(doc.owner, k),
   text |-> doc.text, createdAt |-> doc.createdAt]

\* populate('owner', 'nickname')
Populate(d) ==
  [d EXCEPT !.owner = [kind |-> "doc", ref |-> d.ref, id_ |-> d.owner,
                       nickname |-> Str(Nicknames[d.owner.oid])]]

\* the plain object of a document: the instance is gone
ToObject(d) == [k \in DOMAIN d \ {"ref"} |-> IF k = "kind" THEN "pojo" ELSE d[k]]

\* res.json: identifiers are written as their hexadecimal strings
Json(d) ==
  [id_ |-> ToHexString(d.id_).value,
   owner |-> IF d.owner.kind = "ObjectId"
             THEN ToHexString(d.owner).value
             ELSE [id_ |-> ToHexString(d.owner.id_).value, nickname |-> d.owner.nickname.value],
   text |-> IF d.text.kind = "string" THEN d.text.value ELSE "undefined",
   createdAt |-> d.createdAt]

RECURSIVE JsonAll(_)
JsonAll(ds) == IF ds = <<>> THEN <<>> ELSE <<Json(Head(ds))>> \o JsonAll(Tail(ds))

RECURSIVE ToObjectAll(_)
ToObjectAll(ds) == IF ds = <<>> THEN <<>> ELSE <<ToObject(Head(ds))>> \o ToObjectAll(Tail(ds))

\* find().populate(..).sort('-createdAt'): every order of the stored posts
\* that is newest first; posts of one instant come in any order
FindSorted(k) ==
  LET ids == {p \in PostIds : Present(p)}
      n == Cardinality(ids)
      orders == {o \in [1..n -> ids] :
                   /\ \A i, j \in 1..n : i # j => o[i] # o[j]
                   /\ \A i, j \in 1..n :
                        i < j => store[o[i]].createdAt >= store[o[j]].createdAt}
  IN {[i \in 1..n |-> Populate(Hydrate(o[i], store[o[i]], k + o[i]))] : o \in orders}

\* findById: the document or null
FindById(p, k) == IF Present(p) THEN Hydrate(p, store[p], k + p) ELSE Null

\* the posts whose owner's id equals the requesting user's
MyPostsOfEveryone(requestObject, posts) == posts
MyPosts(requestObject, posts) ==
  SelectSeq(posts, LAMBDA post : IdEquals(requestObject.user.id_, post.owner.id_))

\* posts.find(..): the first post of the requesting user, or undefined
MyLatestPost(requestObject, posts) ==
  LET mine == MyPosts(requestObject, posts)
  IN IF mine = <<>> THEN Undefined ELSE Head(mine)

\* lib/error_handler: the status of each error kind
StatusOf(err) ==
  CASE err.name = "OwnershipError" -> 403
    [] err.name = "UserValidationError" -> 401
    [] err.name = "DocumentNotFoundError" -> 404
    [] err.name = "BadParamsError" -> 422
    [] OTHER -> 500

\* the instances of request r: its req.user and the documents it loads
ReqRef(r) == 1000 + 100 * r
DocRef(r) == 2000 + 100 * r
Req(r) == RequestObject(slots[r].uid, ReqRef(r))

IdleSlot == [pc |-> "idle"]
Routes == {"index", "myPosts", "myLatestPost", "show", "create", "update", "destroy"}
Waiting(r, route) == slots[r].pc = "query" /\ slots[r].route = route

\* the body names an owner other than the caller (kept for the record only)
Forged(post, u) ==
  /\ "owner" \in DOMAIN post.fields
  /\ post.fields.owner \notin {Str(""), ToHexString(ObjectId(u, 0))}

\* the handler of request r is over: its closure is gone
Done(r) == [pc |-> "done", route |-> slots[r].route, forged |-> slots[r].forged]

\* requests take the first free slot
Free(r) == slots[r].pc = "idle" /\ \A q \in 1..(r - 1) : slots[q].pc # "idle"

\* the request enters its route: the synchronous part ran and the first
\* data-access operation was issued
Begin(r, route, u, p, f, forged) ==
  /\ slots' = [slots EXCEPT ![r] =
       [pc |-> "query", route |-> route, uid |-> u, id |-> p, fields |-> f,
        forged |-> forged]]
  /\ UNCHANGED <<res, body, handled, raised>>

\* .catch(err => handle(err, res))
Catch(r, err) ==
  /\ raised' = [raised EXCEPT ![r] = Append(@, err)]
  /\ handled' = [handled EXCEPT ![r] = Append(@, err)]
  /\ res' = [res EXCEPT ![r] = Append(@, StatusOf(err))]
  /\ slots' = [slots EXCEPT ![r] = Done(r)]
  /\ UNCHANGED body

\* res.status(n).json(..): posts is the list a list route writes
Respond(r, status, posts) ==
  /\ res' = [res EXCEPT ![r] = Append(@, status)]
  /\ body' = [body EXCEPT ![r] = posts]
  /\ slots' = [slots EXCEPT ![r] = Done(r)]
  /\ UNCHANGED <<raised, handled>>

StoreUnchanged == UNCHANGED <<store, nextPost, clock, creator>>

RouteInit ==
  /\ loaded = [kind |-> "doc", ref |-> 1, id_ |-> ObjectId(1, 3)]
  /\ calls = [c \in CallIds |-> IdleCall]
  /\ RouteIdle

\* time passes
Tick ==
  /\ clock < MaxClock
  /\ clock' = clock + 1
  /\ UNCHANGED <<store, nextPost, creator, slots, res, body, handled, raised, guardVars>>

\* GET /posts
ReceiveIndex(r, u) ==
  /\ Free(r)
  /\ Begin(r, "index", u, 0, EmptyFields, FALSE)
  /\ StoreUnchanged /\ UNCHANGED guardVars

IndexSettle(r) ==
  /\ Waiting(r, "index")
  /\ \/ Catch(r, DbFailure)
     \/ \E posts \in FindSorted(DocRef(r)) : Respond(r, 200, <<>>)
  /\ StoreUnchanged /\ UNCHANGED guardVars

\* GET /posts/myPosts
ReceiveMyPosts(r, u) ==
  /\ Free(r)
  /\ Begin(r, "myPosts", u, 0, EmptyFields, FALSE)
  /\ StoreUnchanged /\ UNCHANGED guardVars

MyPostsSettle(r) ==
  /\ Waiting(r, "myPosts")
  /\ \/ Catch(r, DbFailure)
     \/ \E posts \in FindSorted(DocRef(r)) :
          Respond(r, 200, JsonAll(ToObjectAll(MyPosts(Req(r), posts))))
  /\ StoreUnchanged /\ UNCHANGED guardVars

\* GET /posts/myLatestPost
ReceiveMyLatestPost(r, u) ==
  /\ Free(r)
  /\ Begin(r, "myLatestPost", u, 0, EmptyFields, FALSE)
  /\ StoreUnchanged /\ UNCHANGED guardVars

MyLatestPostSettle(r) ==
  /\ Waiting(r, "myLatestPost")
  /\ \/ Catch(r, DbFailure)
     \/ \E posts \in FindSorted(DocRef(r)) :
          LET post == MyLatestPost(Req(r), posts)
          IN Respond(r, 200, <<>>)
  /\ StoreUnchanged /\ UNCHANGED guardVars

\* GET /posts/:id
ReceiveShow(r, u, p) ==
  /\ Free(r)
  /\ Begin(r, "show", u, p, EmptyFields, FALSE)
  /\ StoreUnchanged /\ UNCHANGED guardVars

ShowSettle(r) ==
  /\ Waiting(r, "show")
  /\ \/ Catch(r, DbFailure)
     \/ LET found == FindById(slots[r].id, DocRef(r))
            record == handle404(IF found = Null THEN Null ELSE Populate(found))
        IN IF record.threw
           THEN Catch(r, record.error)
           ELSE Respond(r, 200, <<>>)
  /\ StoreUnchanged /\ UNCHANGED guardVars

\* a property of req.body.post is touched before any promise exists: the
\* TypeError leaves the route handler and never reaches handle
ThrowOutsideChain(r, route, err) ==
  /\ slots' = [slots EXCEPT ![r] = [pc |-> "done", route |-> route, forged |-> FALSE]]
  /\ raised' = [raised EXCEPT ![r] = Append(@, err)]
  /\ UNCHANGED <<res, body, handled>>

\* POST /posts
ReceiveCreate(r, u, post) ==
  /\ Free(r)
  /\ IF post = Undefined
     THEN ThrowOutsideChain(r, "create", TypeError)
     ELSE /\ nextPost + Cardinality({q \in SlotIds : Waiting(q, "create")}) < MaxPosts
          /\ Begin(r, "create", u, 0, CreateFields(post.fields, RequestObject(u, ReqRef(r))),
                  Forged(post, u))
  /\ StoreUnchanged /\ UNCHANGED guardVars

CreateSettle(r) ==
  /\ Waiting(r, "create")
  /\ \/ Catch(r, DbFailure) /\ StoreUnchanged
     \/ LET p == nextPost + 1
            doc == NewDocument(slots[r].fields, clock)
        IN /\ store' = [store EXCEPT ![p] = doc]
           /\ nextPost' = p
           /\ creator' = [creator EXCEPT ![p] = slots[r].uid]
           /\ UNCHANGED clock
           /\ Respond(r, 201, <<>>)
  /\ UNCHANGED guardVars

\* PATCH /posts/:id
ReceivePatch(r, u, p, post) ==
  /\ Free(r)
  /\ IF post = Undefined
     THEN ThrowOutsideChain(r, "update", TypeError)
     ELSE Begin(r, "update", u, p, PatchFields(post.fields), Forged(post, u))
  /\ StoreUnchanged /\ UNCHANGED guardVars

\* findByIdAndUpdate settles, then handle404 and requireOwnership run
PatchSettle(r) ==
  /\ Waiting(r, "update")
  /\ \/ Catch(r, DbFailure) /\ StoreUnchanged
     \/ LET p == slots[r].id
            updated == UpdatedDocument(store[p], slots[r].fields)
            record == handle404(IF Present(p) THEN Hydrate(p, updated, DocRef(r) + p) ELSE Null)
        IN /\ store' = IF Present(p) THEN [store EXCEPT ![p] = updated] ELSE store
           /\ UNCHANGED <<nextPost, clock, creator>>
           /\ IF record.threw
              THEN Catch(r, record.error)
              ELSE LET owns == requireOwnership(Req(r), record.value)
                   IN IF owns.threw
                      THEN Catch(r, owns.error)
                      ELSE Respond(r, 200, <<>>)
  /\ UNCHANGED guardVars

\* DELETE /posts/:id
ReceiveDelete(r, u, p) ==
  /\ Free(r)
  /\ Begin(r, "destroy", u, p, EmptyFields, FALSE)
  /\ StoreUnchanged /\ UNCHANGED guardVars

\* findById settles, then handle404 and requireOwnership run; post.remove()
\* is started and not returned, so the next then sends 204 at once
DeleteFound(r) ==
  /\ Waiting(r, "destroy")
  /\ \/ Catch(r, DbFailure)
     \/ LET record == handle404(FindById(slots[r].id, DocRef(r)))
        IN IF record.threw
           THEN Catch(r, record.error)
           ELSE LET owns == requireOwnership(Req(r), record.value)
                IN IF owns.threw
                   THEN Catch(r, owns.error)
                   ELSE /\ slots' = [slots EXCEPT ![r] =
                             [slots[r] EXCEPT !.pc = "removing"] @@ [removed |-> "pending"]]
                        /\ res' = [res EXCEPT ![r] = Append(@, 204)]
                        /\ UNCHANGED <<body, raised, handled>>
  /\ StoreUnchanged /\ UNCHANGED guardVars

\* the removal started by post.remove() settles; nothing awaits its promise
RemoveSettle(r) ==
  /\ slots[r].pc = "removing"
  /\ \/ /\ store' = [store EXCEPT ![slots[r].id] = NoDoc]
        /\ slots' = [slots EXCEPT ![r] = Done(r) @@ [removed |-> "ok"]]
        /\ UNCHANGED raised
     \/ /\ UNCHANGED store
        /\ slots' = [slots EXCEPT ![r] = Done(r) @@ [removed |-> "failed"]]
        /\ raised' = [raised EXCEPT ![r] = Append(@, DbFailure)]
  /\ UNCHANGED <<nextPost, clock, creator, res, body, handled, guardVars>>

\* the request is over and its objects are dropped
Close(r) ==
  /\ slots[r].pc = "done"
  /\ slots' = [slots EXCEPT ![r] = IdleSlot]
  /\ res' = [res EXCEPT ![r] = <<>>]
  /\ handled' = [handled EXCEPT ![r] = <<>>]
  /\ raised' = [raised EXCEPT ![r] = <<>>]
  /\ body' = [body EXCEPT ![r] = <<>>]
  /\ StoreUnchanged /\ UNCHANGED guardVars

Next ==
  \/ Tick
  \/ \E r \in SlotIds, u \in UserIds :
       \/ ReceiveIndex(r, u)
       \/ ReceiveMyPosts(r, u)
       \/ ReceiveMyLatestPost(r, u)
       \/ \E p \in PostIds : ReceiveShow(r, u, p)
       \/ \E post \in PostInputs : ReceiveCreate(r, u, post)
       \/ \E p \in PostIds, post \in PostInputs : ReceivePatch(r, u, p, post)
       \/ \E p \in PostIds : ReceiveDelete(r, u, p)
  \/ \E r \in SlotIds :
       \/ IndexSettle(r)
       \/ MyPostsSettle(r)
       \/ MyLatestPostSettle(r)
       \/ ShowSettle(r)
       \/ CreateSettle(r)
       \/ PatchSettle(r)
       \/ DeleteFound(r)
       \/ RemoveSettle(r)
       \/ Close(r)

Spec == RouteInit /\ [][Next]_vars

----------------------------------------------------------------------------
(* Properties of the guard functions, checked under GuardSpec *)

Returned(c) == calls[c].pc = "returned"
ReturnedFrom(c, g) == Returned(c) /\ calls[c].guard = g

\* the identifier v denotes the user u, whatever its representation
DenotesUser(v, u) ==
  \/ (v.kind = "ObjectId" /\ v.oid = u)
  \/ (v.kind = "string" /\ v.value = Hex[u])

\* C1: requireOwnership returns normally exactly when the identity's id is
\* identifier-equal to resource.owner, and otherwise throws OwnershipError
\* with the fixed message.
C1_RequireOwnership ==
  \A c \in CallIds :
    ReturnedFrom(c, "requireOwnership") =>
      LET resource == loaded
          out == calls[c].outcome
      IN IF "owner" \in DOMAIN resource /\ DenotesUser(resource.owner, calls[c].identity)
         THEN ~out.threw
         ELSE /\ out.threw
              /\ out.error.name = "OwnershipError"
              /\ out.error.message =
                   "The provided token does not match the owner of this document"

\* an owner passes although its identifier is another instance, and a
\* stranger is rejected
C1_Witness ==
  /\ \E c \in CallIds :
       /\ ReturnedFrom(c, "requireOwnership")
       /\ ~calls[c].outcome.threw
       /\ loaded.owner.kind = "ObjectId"
       /\ loaded.owner.ref # 100 + c
  /\ \E c \in CallIds :
       ReturnedFrom(c, "requireOwnership") /\ calls[c].outcome.threw

\* C2: validateUser returns normally when the identity's id equals the
\* resource's own id (not its owner), and otherwise throws
\* UserValidationError.
C2_ValidateUser ==
  \A c \in CallIds :
    ReturnedFrom(c, "validateUser") =>
      LET resource == loaded
          out == calls[c].outcome
      IN IF resource.id_.oid = calls[c].identity
         THEN ~out.threw
         ELSE out.threw /\ out.error.name = "UserValidationError"

\* the caller is the record itself and not its owner, and the call returns
C2_Witness ==
  \E c \in CallIds :
    /\ ReturnedFrom(c, "validateUser")
    /\ ~calls[c].outcome.threw
    /\ "owner" \in DOMAIN loaded
    /\ ~DenotesUser(loaded.owner, calls[c].identity)

\* C3: handle404 throws DocumentNotFoundError for null and undefined and
\* returns every present record itself, the same instance with the same
\* content.
C3_Handle404 ==
  \A c \in CallIds :
    ReturnedFrom(c, "handle404") =>
      LET out == calls[c].outcome
      IN IF calls[c].arg.kind \in {"null", "undefined"}
         THEN out.threw /\ out.error.name = "DocumentNotFoundError"
         ELSE /\ ~out.threw
              /\ out.value = loaded
              /\ out.value.ref = 1

\* one call passed a record through while another failed on an absent one
C3_Witness ==
  /\ \E c \in CallIds :
       /\ ReturnedFrom(c, "handle404")
       /\ calls[c].arg.kind = "ptr"
       /\ ~calls[c].outcome.threw
  /\ \E c \in CallIds :
       /\ ReturnedFrom(c, "handle404")
       /\ calls[c].arg.kind \in {"null", "undefined"}
       /\ calls[c].outcome.threw

ErrorTable ==
  {[name |-> "OwnershipError",
    message |-> "The provided token does not match the owner of this document"],
   [name |-> "UserValidationError",
    message |-> "The provided token does not match the current user ID"],
   [name |-> "DocumentNotFoundError",
    message |-> "The provided ID doesn't match any documents"],
   [name |-> "BadParamsError",
    message |-> "A required parameter was omitted or invalid"]}

\* C4: every error a guard throws, and every BadParamsError constructed, is
\* one of the four name and message pairs of the table, whatever the inputs.
C4_ClosedErrorSet ==
  \A c \in CallIds :
    Returned(c) =>
      /\ calls[c].outcome.threw => calls[c].outcome.error \in ErrorTable
      /\ calls[c].guard = "BadParamsError" =>
           /\ calls[c].outcome.value \in ErrorTable
           /\ calls[c].outcome.value.name = "BadParamsError"

\* a not-found error was thrown and a BadParamsError was constructed
C4_Witness ==
  /\ \E c \in CallIds :
       /\ Returned(c)
       /\ calls[c].outcome.threw
       /\ calls[c].outcome.error.name = "DocumentNotFoundError"
  /\ \E c \in CallIds : ReturnedFrom(c, "BadParamsError")

\* C6: a guard that runs changes nothing but its own outcome (the resource, its
\* arguments, the other invocations and the store stay as they were), so
\* every outcome is the guard's value on its own arguments, in every
\* interleaving.
C6_GuardStep ==
  /\ \A c \in CallIds :
       (calls[c].pc = "called" /\ calls'[c].pc = "returned") =>
         /\ loaded' = loaded
         /\ calls'[c].arg = calls[c].arg
         /\ calls'[c].identity = calls[c].identity
         /\ \A d \in CallIds \ {c} : calls'[d] = calls[d]
         /\ routeVars' = routeVars
  /\ \A c \in CallIds :
       calls'[c].pc = "returned" =>
         calls'[c].outcome = RunGuard(loaded', calls'[c])
C6_GuardsPure == [][C6_GuardStep]_vars

\* two identities were classified against the same resource with different
\* outcomes
C6_Witness ==
  \E c, d \in CallIds :
    /\ c # d
    /\ ReturnedFrom(c, "requireOwnership")
    /\ ReturnedFrom(d, "requireOwnership")
    /\ calls[c].arg = calls[d].arg
    /\ calls[c].outcome.threw
    /\ ~calls[d].outcome.threw

----------------------------------------------------------------------------
(* Properties of the post routes, checked under Spec *)

Finished(r, route) == slots[r].pc = "done" /\ slots[r].route = route
Statuses(r) == {res[r][i] : i \in 1..Len(res[r])}

\* C5: every guard failure and every failure of a data-access operation of
\* a request reaches the error handler, once and unchanged, and the request
\* gets no success response.
C5_FailuresReachHandler ==
  \A r \in SlotIds :
    LET failures == SelectSeq(raised[r], LAMBDA e : e.name # "TypeError")
    IN /\ handled[r] = failures
       /\ failures # <<>> => \A st \in Statuses(r) : st >= 400

\* C7: a PATCH or DELETE of a caller who does not own the post leaves the
\* stored post as it was and hands OwnershipError to the error handler
\* (unless the data-access operation itself failed), and a stored post
\* changes only in a step of a PATCH or DELETE of its owner.
C7_Step ==
  /\ \A r \in SlotIds :
       ( /\ slots[r].pc = "query"
         /\ slots[r].route \in {"update", "destroy"}
         /\ slots'[r].pc # "query"
         /\ Present(slots[r].id)
         /\ store[slots[r].id].owner # slots[r].uid ) =>
           /\ store'[slots[r].id] = store[slots[r].id]
           /\ handled'[r] \in {<<OwnershipError>>, <<DbFailure>>}
  /\ \A p \in PostIds :
       (Present(p) /\ store'[p] # store[p]) =>
         \E r \in SlotIds :
           /\ slots[r].pc \in {"query", "removing"}
           /\ slots'[r] # slots[r]
           /\ slots[r].route \in {"update", "destroy"}
           /\ slots[r].id = p
           /\ slots[r].uid = store[p].owner
C7_OwnershipBeforeChange == [][C7_Step]_vars

\* C8: in DELETE /posts/:id a 204 has been sent only if the removal of the
\* post has completed successfully.
C8_NoContentAfterRemoval ==
  \A r \in SlotIds :
    (slots[r].pc # "idle" /\ slots[r].route = "destroy" /\ 204 \in Statuses(r)) =>
      (slots[r].pc = "done" /\ slots[r].removed = "ok")

IdOfHex(h) == CHOOSE o \in 1..Len(Hex) : Hex[o] = h

\* C10: a 200 of GET /posts/myPosts lists exactly the stored posts owned by
\* the requesting user, each once and as stored, newest first.
C10_Step ==
  \A r \in SlotIds :
    (Waiting(r, "myPosts") /\ slots'[r].pc = "done" /\ res'[r] = <<200>>) =>
      LET b == body'[r]
          mine == {p \in PostIds : Present(p) /\ store[p].owner = slots[r].uid}
      IN /\ {IdOfHex(b[i].id_) : i \in 1..Len(b)} = mine
         /\ Len(b) = Cardinality(mine)
         /\ \A i \in 1..Len(b) :
              /\ b[i].createdAt = store[IdOfHex(b[i].id_)].createdAt
              /\ IdOfHex(b[i].owner.id_) = slots[r].uid
         /\ \A i, j \in 1..Len(b) : i < j => b[i].createdAt >= b[j].createdAt
C10_MyPostsExact == [][C10_Step]_vars

\* the list holds the caller's post and leaves out the stored post of
\* another user
C10_Witness ==
  \E r \in SlotIds :
    /\ Finished(r, "myPosts")
    /\ res[r] = <<200>>
    /\ Len(body[r]) = 1
    /\ \E p, q \in PostIds :
         /\ Present(p) /\ Present(q)
         /\ store[p].owner # store[q].owner
         /\ body[r][1].id_ = Hex[p]

====
